---- MODULE Spec2Model ----
(***************************************************************************)
(* Model of frontend/app.py, the Streamlit front end of the EPCET library  *)
(* management system.                                                      *)
(*                                                                         *)
(* One behaviour is a sequence of script runs ("render passes").  A pass   *)
(* starts with the widget interaction that triggered it, runs main() (the  *)
(* sidebar, then the page renderer the navigation selects) and ends when   *)
(* the script returns, raises, or calls st.rerun().  Every action models   *)
(* the code from one api._make_request call up to the next one: the        *)
(* Library Service answers between two calls, so its answer is the input   *)
(* of the action.                                                          *)
(***************************************************************************)
EXTENDS Integers, Sequences, FiniteSets, TLC

VARIABLES
    selected,   \* option_menu's value: the navigation selection of this pass
    trigger,    \* the widget whose interaction started this pass
    pc,         \* the next api call site of the script run
    books,      \* transactions_management's local `books`, held across get_users
    payload,    \* the data of the write the script is about to send
    form,       \* the values read from the widgets of the submitted form
    last,       \* the latest _make_request call: its outcome and what it did
    callLog,    \* the _make_request calls of this pass, in order
    sent,       \* the HTTP requests of this pass, in order
    ui,         \* what the renderers put on the page in this pass, in order
    crash,      \* the exception that ended this script run, or "none"
    view        \* the selector or table last built from fetched rows, with the
                \* rows it was built from and the option the user picked

vars == <<selected, trigger, pc, books, payload, form, last, callLog, sent, ui, crash, view>>

(***************************************************************************)
(* Bounds.                                                                 *)
(***************************************************************************)
\* Largest value entered in the "Total Copies*" number input, and largest
\* availableCopies of a fetched book.
MaxCopies == 2

\* Longest list of rows a fetch returns to the selectors and tables.
MaxRows == 2

\* Most columns of an analytics table.
MaxColumns == 3

(***************************************************************************)
(* Strings are sequences of characters, so that building a label and       *)
(* splitting it again is computed and not assumed.                         *)
(***************************************************************************)
RECURSIVE IsPrefix(_, _)
IsPrefix(p, s) ==
    IF p = <<>> THEN TRUE
    ELSE IF s = <<>> THEN FALSE
    ELSE Head(p) = Head(s) /\ IsPrefix(Tail(p), Tail(s))

\* str.split(sep)[0]: the text before the first occurrence of sep, or all
\* of s when sep does not occur.
RECURSIVE SplitFirst(_, _)
SplitFirst(s, sep) ==
    IF s = <<>> THEN <<>>
    ELSE IF IsPrefix(sep, s) THEN <<>>
    ELSE <<Head(s)>> \o SplitFirst(Tail(s), sep)

\* The separator " - " of the return-flow label.
Sep == <<" ", "-", " ">>

(***************************************************************************)
(* The Library Service's answers.                                          *)
(***************************************************************************)
\* A parsed JSON object.  One record shape serves every endpoint; a field
\* an endpoint does not carry holds its default.
\*   success      the envelope's flag (.get('success') of a missing flag is falsy)
\*   status       /health: the status string
\*   dbConnected  /health: database.connected
\*   data         "missing" | "empty" | "rows" | "object"
\*   fine         /transactions/return: the optional fine text is present
\*   hasError     the body carries an 'error' field
Body(success, status, dbConnected, data, fine, hasError) ==
    [success |-> success, status |-> status, dbConnected |-> dbConnected,
     data |-> data, fine |-> fine, hasError |-> hasError]

\* Python's None, and the value of a variable not bound yet.
None == [absent |-> TRUE, body |-> Body(FALSE, "", FALSE, "missing", FALSE, FALSE)]

Some(b) == [absent |-> FALSE, body |-> b]

\* The envelope of a refusal: {success: false, error}.
Unsuccessful == Body(FALSE, "", FALSE, "missing", FALSE, TRUE)

\* Bodies of GET /health: {status, database: {status, connected}}.
HealthBodies ==
    { Body(FALSE, s, d, "missing", FALSE, FALSE) : s \in {"OK", "DOWN"}, d \in BOOLEAN }

\* Bodies of the list endpoints: {success, data: [...]}.
ListBodies ==
    { Body(TRUE, "", FALSE, d, FALSE, FALSE) : d \in {"empty", "rows"} }
    \cup { Unsuccessful }

\* Bodies of POST/PUT/DELETE on /books and /users: {success, data?}.
WriteBodies ==
    { Body(TRUE, "", FALSE, d, FALSE, FALSE) : d \in {"missing", "object"} }
    \cup { Unsuccessful }

\* Bodies of POST /transactions/borrow: the envelope carries the new
\* transaction as data.
BorrowBodies ==
    { Body(TRUE, "", FALSE, "object", FALSE, FALSE) }
    \cup { Unsuccessful }

\* Bodies of POST /transactions/return: a fine may come with the envelope.
ReturnBodies ==
    { Body(TRUE, "", FALSE, "object", f, FALSE) : f \in BOOLEAN }
    \cup { Unsuccessful }

\* Bodies of GET /analytics/dashboard: data.overview, data.popularCategories
\* and data.userTypeStats; "object" is the complete payload, "missing" one
\* that lacks data.overview.
StatsBodies ==
    { Body(TRUE, "", FALSE, d, FALSE, FALSE) : d \in {"object", "missing"} }
    \cup { Unsuccessful }

\* Bodies of an error answer: an object with or without 'error'.
ErrorBodies ==
    { Body(FALSE, "", FALSE, "missing", FALSE, h) : h \in BOOLEAN }

\* HTTP status codes the service answers with.
Statuses == {200, 201, 500}

\* The exceptions requests raises, each with the classes it is an instance
\* of among those the except clauses name.  ConnectTimeout derives from both
\* ConnectionError and Timeout; ReadTimeout from Timeout only.
Exceptions == {"ConnectionError", "ConnectTimeout", "ReadTimeout", "InvalidSchema"}

IsInstance(exc, cls) ==
    CASE cls = "ConnectionError" -> exc \in {"ConnectionError", "ConnectTimeout"}
      [] cls = "Timeout"         -> exc \in {"ConnectTimeout", "ReadTimeout"}
      [] OTHER                   -> TRUE

\* What one HTTP request comes to.
\*   kind    "response" | "exception"
\*   status  the status code of a response
\*   json    the response text parses as JSON
\*   body    the parsed object (when json)
\*   exc     the exception requests raised (when kind = "exception")
Response(status, json, body) ==
    [kind |-> "response", status |-> status, json |-> json, body |-> body, exc |-> ""]

Raised(exc) ==
    [kind |-> "exception", status |-> 0, json |-> FALSE, body |-> None.body, exc |-> exc]

\* The answers an endpoint whose 200 bodies are `bodies` can give.
Outcomes(bodies) ==
    { Response(200, TRUE, b) : b \in bodies }
    \cup { Response(200, FALSE, None.body) }
    \cup { Response(s, TRUE, b) : s \in Statuses \ {200}, b \in ErrorBodies }
    \cup { Response(s, FALSE, None.body) : s \in Statuses \ {200} }
    \cup { Raised(e) : e \in Exceptions }

(***************************************************************************)
(* LibraryAPI._make_request                                                *)
(***************************************************************************)
Request(method, endpoint, data) == [method |-> method, endpoint |-> endpoint, data |-> data]

NoData == [none |-> TRUE]

\* What a call did: the value returned, the st.error banner, whether print()
\* wrote a diagnostic, the requests put on the wire, and the exception that
\* left _make_request ("none" when it returned).
\*   banner  "none" | "api_error" | "connect" | "timeout" | "generic"
\*   message the error text of an api_error banner: "error" is the body's
\*           'error' field, "Unknown error" the default of .get
Did(ret, banner, message, printed, requests) ==
    [ret |-> ret, banner |-> banner, message |-> message, printed |-> printed,
     requests |-> requests, raised |-> "none"]

\* Mutant of make_request_except: no `except Exception` clause, so what is
\* neither a ConnectionError nor a Timeout leaves _make_request.
make_request_except_uncaught(exc, requests) ==
    IF IsInstance(exc, "ConnectionError")
    THEN Did(None, "connect", "", FALSE, requests)
    ELSE IF IsInstance(exc, "Timeout")
    THEN Did(None, "timeout", "", FALSE, requests)
    ELSE [Did(None, "none", "", FALSE, requests) EXCEPT !.raised = exc]

\* The except clauses, in the order they are written.
make_request_except(exc, requests) ==
    IF IsInstance(exc, "ConnectionError")
    THEN Did(None, "connect", "", FALSE, requests)
    ELSE IF IsInstance(exc, "Timeout")
    THEN Did(None, "timeout", "", FALSE, requests)
    ELSE Did(None, "generic", "", TRUE, requests)

\* Mutant of make_request_response: the error branch shows its banner and
\* prints nothing.
make_request_response_silent(o, requests) ==
    IF o.status = 200
    THEN IF o.json
         THEN Did(Some(o.body), "none", "", FALSE, requests)
         ELSE make_request_except("JSONDecodeError", requests)
    ELSE IF o.json
         THEN Did(None, "api_error",
                  IF o.body.hasError THEN "error" ELSE "Unknown error",
                  FALSE, requests)
         ELSE make_request_except("JSONDecodeError", requests)

\* The body of the try block once requests.<method> has returned.
make_request_response(o, requests) ==
    IF o.status = 200
    THEN IF o.json
         THEN Did(Some(o.body), "none", "", FALSE, requests)
         ELSE make_request_except("JSONDecodeError", requests)
    ELSE IF o.json
         THEN Did(None, "api_error",
                  IF o.body.hasError THEN "error" ELSE "Unknown error",
                  TRUE, requests)
         ELSE make_request_except("JSONDecodeError", requests)

\* Mutant of make_request: a request that raised is sent a second time.
make_request_retry(endpoint, method, data, o) ==
    LET requests == <<Request(method, endpoint, data)>> IN
    IF o.kind = "exception"
    THEN make_request_except(o.exc, requests \o requests)
    ELSE make_request_response(o, requests)

\* _make_request(endpoint, method, data) when the request comes to o.
make_request(endpoint, method, data, o) ==
    LET requests == <<Request(method, endpoint, data)>> IN
    IF o.kind = "exception"
    THEN make_request_except(o.exc, requests)
    ELSE make_request_response(o, requests)

(***************************************************************************)
(* What the script run keeps of a call.                                    *)
(***************************************************************************)
\* How a caller's `X and X.get('success')` (for /health: the 'OK' test of
\* check_connection) sees a returned value.
Succeeded(result) == ~result.absent /\ result.body.success

\* Check if backend is connected.
\* A probe that takes any answer for a connected backend.
check_connection_any_answer(health) == ~health.absent

check_connection(health) == ~health.absent /\ health.body.status = "OK"

\* An element the renderers put on the page: what it is and the call site
\* (or form, or page) it belongs to.
Ev(name, at) == [ev |-> name, at |-> at]

\* How the code after a call goes on: the elements it shows, the next call
\* site (or "done"), and the exception it raises ("none" when it does not).
Go(shown, next, exc) ==
    [ui |-> shown, pc |-> next, crash |-> exc, data |-> NoData, form |-> NoData]

\* Go on to the write at call site `next`, which sends `data`.
Send(shown, next, data) ==
    [ui |-> shown, pc |-> next, crash |-> "none", data |-> data, form |-> NoData]

\* Go on as k does, the submitted form's widgets having held `values`.
Submitted(values, k) == [k EXCEPT !.form = values]

\* Go on as k does, having first shown `shown`.
After(shown, k) == [k EXCEPT !.ui = shown \o k.ui]

\* The state after the call at `site` came to o, did d, and the code went
\* on as k.  An uncaught exception ends the script run.
Commit(site, o, d, k) ==
    /\ last' = [site |-> site, outcome |-> o, did |-> d]
    /\ callLog' = Append(callLog, site)
    /\ sent' = sent \o d.requests
    /\ ui' = IF d.raised # "none" THEN ui ELSE ui \o k.ui
    /\ crash' = IF d.raised # "none" THEN d.raised ELSE k.crash
    /\ payload' = k.data
    /\ form' = IF k.form = NoData THEN form ELSE k.form
    /\ pc' = IF d.raised # "none" \/ k.crash # "none" THEN "done" ELSE k.pc
    /\ UNCHANGED view

(***************************************************************************)
(* main(): navigation, sidebar status block, quick actions, page routing   *)
(***************************************************************************)
Pages == {"Dashboard", "Books", "Users", "Transactions", "Analytics"}

\* The buttons of each page, besides the sidebar's Refresh and Health.
PageTriggers(page) ==
    CASE page = "Books"        -> {"add_book", "update_book", "delete_book"}
      [] page = "Users"        -> {"add_user"}
      [] page = "Transactions" -> {"borrow", "return"}
      [] OTHER                 -> {}

\* A router that shows the Dashboard whatever is selected.
route_dashboard(sel) == Go(<<Ev("page", "main_page")>>, "main_page_check", "none")

\* Page routing: the first call site of the renderer the selection maps to.
route(sel) ==
    CASE sel = "Dashboard"    -> Go(<<Ev("page", "main_page")>>, "main_page_check", "none")
      [] sel = "Books"        -> Go(<<Ev("page", "books_management")>>, "books_tab1", "none")
      [] sel = "Users"        -> Go(<<Ev("page", "users_management")>>, "users_tab1", "none")
      [] sel = "Transactions" -> Go(<<Ev("page", "transactions_management")>>, "tx_books", "none")
      [] sel = "Analytics"    -> Go(<<Ev("page", "analytics_dashboard")>>, "analytics_tab1", "none")
      [] OTHER                -> Go(<<>>, "done", "none")

\* Quick Actions: Refresh reruns the script, Health probes once more.
quick_actions(sel, trig) ==
    IF trig = "refresh" THEN Go(<<Ev("rerun", "refresh")>>, "done", "none")
    ELSE IF trig = "health" THEN Go(<<>>, "health_button", "none")
    ELSE route(sel)

\* System Status, after check_connection()'s probe returned health.
sidebar_status(health, sel, trig) ==
    IF check_connection(health)
    THEN Go(<<Ev("connected", "sidebar")>>, "sidebar_health", "none")
    ELSE After(<<Ev("disconnected", "sidebar")>>, quick_actions(sel, trig))

\* A sub-status line in one style whatever database.connected is.
sidebar_database_one_style(health, sel, trig) ==
    IF ~health.absent
    THEN After(<<Ev("db_connected", "sidebar")>>, quick_actions(sel, trig))
    ELSE quick_actions(sel, trig)

\* System Status, after the second probe returned health.
sidebar_database(health, sel, trig) ==
    IF ~health.absent
    THEN After(<<Ev(IF health.body.dbConnected THEN "db_connected" ELSE "db_disconnected",
                    "sidebar")>>,
               quick_actions(sel, trig))
    ELSE quick_actions(sel, trig)

\* The Health button, after its probe returned health.
health_pressed(health, sel) ==
    IF ~health.absent
    THEN After(<<Ev("health_status", "sidebar")>>, route(sel))
    ELSE route(sel)

sidebar_check ==
    /\ pc = "sidebar_check"
    /\ \E o \in Outcomes(HealthBodies) :
         LET d == make_request("/health", "GET", NoData, o)
         IN Commit("sidebar_check", o, d, sidebar_status(d.ret, selected, trigger))
    /\ UNCHANGED <<selected, trigger, books>>

sidebar_health ==
    /\ pc = "sidebar_health"
    /\ \E o \in Outcomes(HealthBodies) :
         LET d == make_request("/health", "GET", NoData, o)
         IN Commit("sidebar_health", o, d, sidebar_database(d.ret, selected, trigger))
    /\ UNCHANGED <<selected, trigger, books>>

health_button ==
    /\ pc = "health_button"
    /\ \E o \in Outcomes(HealthBodies) :
         LET d == make_request("/health", "GET", NoData, o)
         IN Commit("health_button", o, d, health_pressed(d.ret, selected))
    /\ UNCHANGED <<selected, trigger, books>>

(***************************************************************************)
(* main_page(): the Dashboard                                              *)
(***************************************************************************)
\* Mutant of main_page_gate: the error is shown and the `return` is missing.
main_page_gate_no_return(health) ==
    IF ~check_connection(health)
    THEN Go(<<Ev("connectivity_error", "main_page")>>, "main_page_stats", "none")
    ELSE Go(<<>>, "main_page_stats", "none")

\* The connectivity gate at the top of the page.
main_page_gate(health) ==
    IF ~check_connection(health)
    THEN Go(<<Ev("connectivity_error", "main_page")>>, "done", "none")
    ELSE Go(<<>>, "main_page_stats", "none")

\* Mutant of main_page_overview: `if stats.get('success')` without the
\* `stats and` guard.
main_page_overview_unguarded(stats) ==
    IF stats.absent THEN Go(<<>>, "done", "AttributeError")
    ELSE IF stats.body.success
    THEN IF stats.body.data = "missing"
         THEN Go(<<>>, "done", "KeyError")
         ELSE Go(<<Ev("render", "main_page_stats")>>, "main_page_recent", "none")
    ELSE Go(<<>>, "done", "none")

\* Dashboard Overview: stats['data']['overview'] and the two charts.
main_page_overview(stats) ==
    IF Succeeded(stats)
    THEN IF stats.body.data = "missing"
         THEN Go(<<>>, "done", "KeyError")
         ELSE Go(<<Ev("render", "main_page_stats")>>, "main_page_recent", "none")
    ELSE Go(<<>>, "done", "none")

\* Recent Activity.
\* Bodies of GET /transactions as the Dashboard reads them: "rows_mixed" is
\* a list whose first row references its book by an object and a later row
\* by a plain string.
RecentBodies ==
    ListBodies \cup { Body(TRUE, "", FALSE, "rows_mixed", FALSE, FALSE) }

main_page_activity(transactions) ==
    IF Succeeded(transactions) /\ transactions.body.data = "rows"
    THEN Go(<<Ev("render", "main_page_recent")>>, "done", "none")
    ELSE IF Succeeded(transactions) /\ transactions.body.data = "rows_mixed"
    THEN Go(<<>>, "done", "AttributeError")
    ELSE Go(<<>>, "done", "none")

main_page_check ==
    /\ pc = "main_page_check"
    /\ \E o \in Outcomes(HealthBodies) :
         LET d == make_request("/health", "GET", NoData, o)
         IN Commit("main_page_check", o, d, main_page_gate(d.ret))
    /\ UNCHANGED <<selected, trigger, books>>

main_page_stats ==
    /\ pc = "main_page_stats"
    /\ \E o \in Outcomes(StatsBodies) :
         LET d == make_request("/analytics/dashboard", "GET", NoData, o)
         IN Commit("main_page_stats", o, d, main_page_overview(d.ret))
    /\ UNCHANGED <<selected, trigger, books>>

main_page_recent ==
    /\ pc = "main_page_recent"
    /\ \E o \in Outcomes(RecentBodies) :
         LET d == make_request("/transactions?page=1&limit=10", "GET", NoData, o)
         IN Commit("main_page_recent", o, d, main_page_activity(d.ret))
    /\ UNCHANGED <<selected, trigger, books>>

(***************************************************************************)
(* books_management()                                                      *)
(***************************************************************************)
\* What a text input holds: nothing, or some text.
Texts == {"", "text"}

\* The values tried for a widget of the form that `button` submits.  The
\* script reads a form's values only in the pass its button started, so
\* in any other pass one value stands for all.
Entered(button, values) ==
    IF trigger = button THEN values ELSE { CHOOSE v \in values : TRUE }

\* A table of a fetched list: shown when the fetch succeeded with rows.
show_table(site, result) ==
    IF Succeeded(result) /\ result.body.data \in {"rows", "rows_unavailable"}
    THEN <<Ev("render", site)>>
    ELSE <<>>

\* Mutant of book_data: availableCopies is the number input's minimum and
\* not the submitted total.
book_data_one_available(title, author, category, total_copies) ==
    [title |-> title, author |-> author, category |-> category,
     totalCopies |-> total_copies, availableCopies |-> 1]

\* The payload of the add-book form.  isbn, publishedYear and description
\* are passed through as entered and decide nothing.
book_data(title, author, category, total_copies) ==
    [title |-> title, author |-> author, category |-> category,
     totalCopies |-> total_copies, availableCopies |-> total_copies]

\* Mutant of add_book_form: the category is not among the fields checked.
add_book_form_unchecked_category(submitted, title, author, category, total_copies) ==
    IF submitted
    THEN Submitted([title |-> title, author |-> author, category |-> category,
                    total_copies |-> total_copies],
           IF title # "" /\ author # ""
           THEN Send(<<>>, "books_add", book_data(title, author, category, total_copies))
           ELSE Go(<<Ev("validation_error", "add_book_form")>>, "books_categories", "none"))
    ELSE Go(<<>>, "books_categories", "none")

\* "Add New Book": the form, when the script reaches it.
add_book_form(submitted, title, author, category, total_copies) ==
    IF submitted
    THEN Submitted([title |-> title, author |-> author, category |-> category,
                    total_copies |-> total_copies],
           IF title # "" /\ author # "" /\ category # ""
           THEN Send(<<>>, "books_add", book_data(title, author, category, total_copies))
           ELSE Go(<<Ev("validation_error", "add_book_form")>>, "books_categories", "none"))
    ELSE Go(<<>>, "books_categories", "none")

\* Mutant of post_write: `if result:` without the test of the success flag.
post_write_any_body(form_key, result, next) ==
    IF ~result.absent
    THEN Go(<<Ev("success_banner", form_key), Ev("sleep", form_key), Ev("rerun", form_key)>>,
            "done", "none")
    ELSE Go(<<>>, next, "none")

\* After a write returned result: the success banner, the pause and the
\* forced rerun, or else on to `next`.
post_write(form_key, result, next) ==
    IF Succeeded(result)
    THEN Go(<<Ev("success_banner", form_key), Ev("sleep", form_key), Ev("rerun", form_key)>>,
            "done", "none")
    ELSE Go(<<>>, next, "none")

\* "Search Books": the search runs when a query or a category is entered.
search_books(categories_response, search_query, pick_category) ==
    LET category_filter ==
            IF pick_category /\ Succeeded(categories_response)
               /\ categories_response.body.data = "rows"
            THEN "category" ELSE ""
    IN IF search_query # "" \/ category_filter # ""
       THEN Go(<<>>, "books_search", "none")
       ELSE Go(<<>>, "books_tab4", "none")

search_results(result) ==
    IF Succeeded(result) /\ result.body.data = "empty"
    THEN Go(<<Ev("no_results", "books_search")>>, "books_tab4", "none")
    ELSE Go(show_table("books_search", result), "books_tab4", "none")

\* A delete button whose warning waits for a confirmation before anything
\* is sent.
update_delete_confirmed(result, trig, new_total, new_available) ==
    IF Succeeded(result) /\ result.body.data = "rows"
    THEN IF trig = "update_book"
         THEN Submitted([new_total |-> new_total, new_available |-> new_available],
                Send(<<Ev("render", "books_tab4")>>, "books_update",
                     [id |-> "book_data._id", totalCopies |-> new_total,
                      availableCopies |-> new_available]))
         ELSE IF trig = "delete_book"
         THEN Go(<<Ev("render", "books_tab4"), Ev("warning", "delete_book")>>, "done", "none")
         ELSE Go(<<Ev("render", "books_tab4")>>, "done", "none")
    ELSE Go(<<>>, "done", "none")

\* "Update or Delete Books", when the script reaches it.
update_delete(result, trig, new_total, new_available) ==
    IF Succeeded(result) /\ result.body.data = "rows"
    THEN IF trig = "update_book"
         THEN Submitted([new_total |-> new_total, new_available |-> new_available],
                Send(<<Ev("render", "books_tab4")>>, "books_update",
                     [id |-> "book_data._id", totalCopies |-> new_total,
                      availableCopies |-> new_available]))
         ELSE IF trig = "delete_book"
         THEN Send(<<Ev("render", "books_tab4"), Ev("warning", "delete_book")>>,
                   "books_delete", [id |-> "book_data._id"])
         ELSE Go(<<Ev("render", "books_tab4")>>, "done", "none")
    ELSE Go(<<>>, "done", "none")

books_tab1 ==
    /\ pc = "books_tab1"
    /\ \E o \in Outcomes(ListBodies), title \in Entered("add_book", Texts),
          author \in Entered("add_book", Texts), category \in Entered("add_book", Texts),
          total_copies \in Entered("add_book", 1..MaxCopies) :
         LET d == make_request("/books?page=1&limit=100", "GET", NoData, o)
         IN Commit("books_tab1", o, d,
                   After(show_table("books_tab1", d.ret),
                         add_book_form(trigger = "add_book", title, author, category,
                                       total_copies)))
    /\ UNCHANGED <<selected, trigger, books>>

books_add ==
    /\ pc = "books_add"
    /\ \E o \in Outcomes(WriteBodies) :
         LET d == make_request("/books", "POST", payload, o)
         IN Commit("books_add", o, d, post_write("add_book_form", d.ret, "books_categories"))
    /\ UNCHANGED <<selected, trigger, books>>

books_categories ==
    /\ pc = "books_categories"
    /\ \E o \in Outcomes(ListBodies), search_query \in Texts, pick_category \in BOOLEAN :
         LET d == make_request("/books/categories", "GET", NoData, o)
         IN Commit("books_categories", o, d, search_books(d.ret, search_query, pick_category))
    /\ UNCHANGED <<selected, trigger, books>>

books_search ==
    /\ pc = "books_search"
    /\ \E o \in Outcomes(ListBodies) :
         LET d == make_request("/books?page=1&limit=100&search=&category=", "GET", NoData, o)
         IN Commit("books_search", o, d, search_results(d.ret))
    /\ UNCHANGED <<selected, trigger, books>>

books_tab4 ==
    /\ pc = "books_tab4"
    /\ \E o \in Outcomes(ListBodies), new_total \in Entered("update_book", 1..MaxCopies) :
         \E new_available \in Entered("update_book", 0..new_total) :
           LET d == make_request("/books?page=1&limit=100", "GET", NoData, o)
           IN Commit("books_tab4", o, d, update_delete(d.ret, trigger, new_total, new_available))
    /\ UNCHANGED <<selected, trigger, books>>

books_update ==
    /\ pc = "books_update"
    /\ \E o \in Outcomes(WriteBodies) :
         LET d == make_request("/books/{id}", "PUT", payload, o)
         IN Commit("books_update", o, d, post_write("update_book_form", d.ret, "done"))
    /\ UNCHANGED <<selected, trigger, books>>

books_delete ==
    /\ pc = "books_delete"
    /\ \E o \in Outcomes(WriteBodies) :
         LET d == make_request("/books/{id}", "DELETE", payload, o)
         IN Commit("books_delete", o, d, post_write("delete_book", d.ret, "done"))
    /\ UNCHANGED <<selected, trigger, books>>

(***************************************************************************)
(* users_management()                                                      *)
(***************************************************************************)
UserTypes == {"student", "faculty", "staff", "public"}

\* "Add New User": the form, when the script reaches it.
add_user_form(submitted, name, email, user_type) ==
    IF submitted
    THEN Submitted([name |-> name, email |-> email, user_type |-> user_type],
           IF name # "" /\ email # "" /\ user_type # ""
           THEN Send(<<>>, "users_add",
                     [name |-> name, email |-> email, userType |-> user_type])
           ELSE Go(<<Ev("validation_error", "add_user_form")>>, "done", "none"))
    ELSE Go(<<>>, "done", "none")

users_tab1 ==
    /\ pc = "users_tab1"
    /\ \E o \in Outcomes(ListBodies), name \in Entered("add_user", Texts),
          email \in Entered("add_user", Texts), user_type \in Entered("add_user", UserTypes) :
         LET d == make_request("/users?page=1&limit=100", "GET", NoData, o)
         IN Commit("users_tab1", o, d,
                   After(show_table("users_tab1", d.ret),
                         add_user_form(trigger = "add_user", name, email, user_type)))
    /\ UNCHANGED <<selected, trigger, books>>

users_add ==
    /\ pc = "users_add"
    /\ \E o \in Outcomes(WriteBodies) :
         LET d == make_request("/users", "POST", payload, o)
         IN Commit("users_add", o, d, post_write("add_user_form", d.ret, "done"))
    /\ UNCHANGED <<selected, trigger, books>>

(***************************************************************************)
(* transactions_management()                                               *)
(***************************************************************************)
\* Bodies of GET /books as the borrow tab reads them: "rows_unavailable" is
\* a list in which every book has availableCopies = 0.
BookBodies ==
    ListBodies \cup { Body(TRUE, "", FALSE, "rows_unavailable", FALSE, FALSE) }

\* The values of the "Borrow Duration (days)" input tried: its minimum, its
\* default and its maximum.
BorrowDays == {1, 14, 30}

\* The transactionId values of the fetched open loans.
TransactionIds == { <<>>, <<"T", "1">> }

\* The book titles of the fetched open loans.
Titles == { <<"b">>, <<"b", " ", "-", " ", "c">> }

\* f"{transactionId} - {book_title} (User: {user_name}, Due: {due_date})"
transaction_option(transactionId, book_title, user_name, due_date) ==
    transactionId \o Sep \o book_title
        \o <<" ", "(", "U", "s", "e", "r", ":", " ">> \o user_name
        \o <<",", " ", "D", "u", "e", ":", " ">> \o due_date \o <<")">>

\* "Borrow a Book": the form, when both lists are fetched.  A selectbox
\* over a non-empty list always holds one of its options.
borrow_form(books_result, users, trig, selected_book, selected_user, borrow_days) ==
    IF Succeeded(books_result) /\ Succeeded(users)
    THEN IF books_result.body.data = "rows" /\ users.body.data = "rows"
         THEN IF trig = "borrow"
              THEN Submitted([selected_book |-> selected_book,
                              selected_user |-> selected_user, borrow_days |-> borrow_days],
                     IF selected_book = "" \/ selected_user = ""
                     THEN Go(<<Ev("render", "tx_users"),
                               Ev("validation_error", "borrow_book_form")>>, "tx_tab2", "none")
                     ELSE Send(<<Ev("render", "tx_users")>>, "tx_borrow",
                               [bookId |-> "book_id", userId |-> "user_id",
                                days |-> borrow_days]))
              ELSE Go(<<Ev("render", "tx_users")>>, "tx_tab2", "none")
         ELSE Go(<<Ev("warning", "tx_users")>>, "tx_tab2", "none")
    ELSE Go(<<>>, "tx_tab2", "none")

\* After borrow_book returned result.
borrow_result(result) ==
    IF Succeeded(result)
    THEN IF result.body.data = "missing"
         THEN Go(<<Ev("success_banner", "borrow_book_form")>>, "done", "KeyError")
         ELSE Go(<<Ev("success_banner", "borrow_book_form"), Ev("json", "borrow_book_form"),
                   Ev("sleep", "borrow_book_form"), Ev("rerun", "borrow_book_form")>>,
                 "done", "none")
    ELSE Go(<<>>, "tx_tab2", "none")

\* "Return a Book": the form, when the open loans are fetched.
return_form(transactions, trig, selected_transaction) ==
    IF Succeeded(transactions)
    THEN IF transactions.body.data = "rows"
         THEN LET transaction_id ==
                      IF selected_transaction # <<>>
                      THEN SplitFirst(selected_transaction, Sep) ELSE <<>>
              IN IF trig = "return"
                 THEN Submitted([selected_transaction |-> selected_transaction,
                                 transaction_id |-> transaction_id],
                        IF transaction_id = <<>>
                        THEN Go(<<Ev("render", "tx_tab2"),
                                  Ev("validation_error", "return_book_form")>>, "tx_tab3", "none")
                        ELSE Send(<<Ev("render", "tx_tab2")>>, "tx_return",
                                  [transactionId |-> transaction_id]))
                 ELSE Go(<<Ev("render", "tx_tab2")>>, "tx_tab3", "none")
         ELSE Go(<<Ev("all_returned", "tx_tab2")>>, "tx_tab3", "none")
    ELSE Go(<<>>, "tx_tab3", "none")

\* After return_book returned result.
return_result(result) ==
    IF Succeeded(result)
    THEN Go(<<Ev("success_banner", "return_book_form")>>
              \o (IF result.body.fine THEN <<Ev("fine", "return_book_form")>> ELSE <<>>)
              \o <<Ev("sleep", "return_book_form"), Ev("rerun", "return_book_form")>>,
            "done", "none")
    ELSE Go(<<>>, "tx_tab3", "none")

\* get_transactions' URL for a status filter.
transactions_url(status) ==
    CASE status = ""         -> "/transactions?page=1&limit=100"
      [] status = "borrowed" -> "/transactions?page=1&limit=100&status=borrowed"
      [] status = "returned" -> "/transactions?page=1&limit=100&status=returned"
      [] OTHER               -> "/transactions?page=1&limit=100&status=overdue"

\* "Overdue Books".
overdue_books(overdue) ==
    IF Succeeded(overdue) /\ overdue.body.data = "empty"
    THEN Go(<<Ev("no_overdue", "tx_tab4")>>, "done", "none")
    ELSE Go(show_table("tx_tab4", overdue), "done", "none")

tx_books ==
    /\ pc = "tx_books"
    /\ \E o \in Outcomes(BookBodies) :
         LET d == make_request("/books?page=1&limit=100", "GET", NoData, o)
         IN /\ Commit("tx_books", o, d, Go(<<>>, "tx_users", "none"))
            /\ books' = d.ret
    /\ UNCHANGED <<selected, trigger>>

tx_users ==
    /\ pc = "tx_users"
    /\ \E o \in Outcomes(ListBodies), borrow_days \in Entered("borrow", BorrowDays) :
         LET d == make_request("/users?page=1&limit=100", "GET", NoData, o)
         IN Commit("tx_users", o, d,
                   borrow_form(books, d.ret, trigger, "title by author", "name (userType)",
                               borrow_days))
    /\ UNCHANGED <<selected, trigger, books>>

tx_borrow ==
    /\ pc = "tx_borrow"
    /\ \E o \in Outcomes(BorrowBodies) :
         LET d == make_request("/transactions/borrow", "POST", payload, o)
         IN Commit("tx_borrow", o, d, borrow_result(d.ret))
    /\ UNCHANGED <<selected, trigger, books>>

tx_tab2 ==
    /\ pc = "tx_tab2"
    /\ \E o \in Outcomes(ListBodies), transactionId \in Entered("return", TransactionIds),
          book_title \in Entered("return", Titles) :
         LET d == make_request(transactions_url("borrowed"), "GET", NoData, o)
         IN Commit("tx_tab2", o, d,
                   return_form(d.ret, trigger,
                               transaction_option(transactionId, book_title, <<"u">>, <<"d">>)))
    /\ UNCHANGED <<selected, trigger, books>>

tx_return ==
    /\ pc = "tx_return"
    /\ \E o \in Outcomes(ReturnBodies) :
         LET d == make_request("/transactions/return", "POST", payload, o)
         IN Commit("tx_return", o, d, return_result(d.ret))
    /\ UNCHANGED <<selected, trigger, books>>

tx_tab3 ==
    /\ pc = "tx_tab3"
    /\ \E o \in Outcomes(ListBodies), status_filter \in {"", "borrowed", "returned", "overdue"} :
         LET d == make_request(transactions_url(status_filter), "GET", NoData, o)
         IN Commit("tx_tab3", o, d, Go(show_table("tx_tab3", d.ret), "tx_tab4", "none"))
    /\ UNCHANGED <<selected, trigger, books>>

tx_tab4 ==
    /\ pc = "tx_tab4"
    /\ \E o \in Outcomes(ListBodies) :
         LET d == make_request("/transactions/overdue", "GET", NoData, o)
         IN Commit("tx_tab4", o, d, overdue_books(d.ret))
    /\ UNCHANGED <<selected, trigger, books>>

(***************************************************************************)
(* analytics_dashboard()                                                   *)
(***************************************************************************)
analytics_tab1 ==
    /\ pc = "analytics_tab1"
    /\ \E o \in Outcomes(ListBodies) :
         LET d == make_request("/analytics/most-borrowed?limit=10&period=all", "GET", NoData, o)
         IN Commit("analytics_tab1", o, d,
                   Go(show_table("analytics_tab1", d.ret), "analytics_tab2", "none"))
    /\ UNCHANGED <<selected, trigger, books>>

analytics_tab2 ==
    /\ pc = "analytics_tab2"
    /\ \E o \in Outcomes(ListBodies) :
         LET d == make_request("/analytics/user-categories", "GET", NoData, o)
         IN Commit("analytics_tab2", o, d,
                   Go(show_table("analytics_tab2", d.ret), "analytics_tab3", "none"))
    /\ UNCHANGED <<selected, trigger, books>>

analytics_tab3 ==
    /\ pc = "analytics_tab3"
    /\ \E o \in Outcomes(ListBodies) :
         LET d == make_request("/analytics/reading-patterns", "GET", NoData, o)
         IN Commit("analytics_tab3", o, d,
                   Go(show_table("analytics_tab3", d.ret), "analytics_tab4", "none"))
    /\ UNCHANGED <<selected, trigger, books>>

analytics_tab4 ==
    /\ pc = "analytics_tab4"
    /\ \E o \in Outcomes(ListBodies) :
         LET d == make_request("/analytics/monthly-report?year=", "GET", NoData, o)
         IN Commit("analytics_tab4", o, d,
                   Go(show_table("analytics_tab4", d.ret), "done", "none"))
    /\ UNCHANGED <<selected, trigger, books>>

(***************************************************************************)
(* The script runs                                                         *)
(***************************************************************************)
\* No call made yet in this pass.
NoCall == [site |-> "", outcome |-> Raised(""), did |-> Did(None, "none", "", FALSE, <<>>)]

\* The pass ended in st.rerun().
Rerun == ui # <<>> /\ ui[Len(ui)].ev = "rerun"

\* The interactions that can start the next pass.  A rerun forced by
\* st.rerun() carries no interaction; a click in the navigation menu changes
\* the selection; any other interaction is with a widget of the sidebar or of
\* the page shown.
Interactions ==
    IF Rerun THEN { <<selected, "none">> }
    ELSE { <<p, "none">> : p \in Pages }
         \cup { <<selected, t>> : t \in {"refresh", "health"} \cup PageTriggers(selected) }

\* Streamlit runs the script again, from the top of main().
start_pass ==
    /\ pc = "done"
    /\ \E i \in Interactions :
         /\ selected' = i[1]
         /\ trigger' = i[2]
    /\ pc' = "sidebar_check"
    /\ books' = None
    /\ payload' = NoData
    /\ form' = NoData
    /\ last' = NoCall
    /\ callLog' = <<>>
    /\ sent' = <<>>
    /\ ui' = <<>>
    /\ crash' = "none"
    /\ UNCHANGED view

\* The first run of the script: option_menu's default_index = 0.
Init ==
    /\ selected = "Dashboard"
    /\ trigger = "none"
    /\ pc = "sidebar_check"
    /\ books = None
    /\ payload = NoData
    /\ form = NoData
    /\ last = NoCall
    /\ callLog = <<>>
    /\ sent = <<>>
    /\ ui = <<>>
    /\ crash = "none"
    /\ view = [fn |-> ""]

Next ==
    \/ start_pass
    \/ sidebar_check
    \/ sidebar_health
    \/ health_button
    \/ main_page_check
    \/ main_page_stats
    \/ main_page_recent
    \/ books_tab1
    \/ books_add
    \/ books_categories
    \/ books_search
    \/ books_tab4
    \/ books_update
    \/ books_delete
    \/ users_tab1
    \/ users_add
    \/ tx_books
    \/ tx_users
    \/ tx_borrow
    \/ tx_tab2
    \/ tx_return
    \/ tx_tab3
    \/ tx_tab4
    \/ analytics_tab1
    \/ analytics_tab2
    \/ analytics_tab3
    \/ analytics_tab4

Spec == Init /\ [][Next]_vars

(***************************************************************************)
(* The selectors and tables built from fetched rows.  The script runs      *)
(* above carry a fetched list as "rows"; here the rows are spelled out,    *)
(* and each action builds from a list what the renderer builds from it.    *)
(***************************************************************************)
\* The sequences of at most MaxRows elements of `fields`, the element at
\* position i carrying id i (the service's _id: one per record).
Lists(fields) ==
    { [i \in DOMAIN l |-> [l[i] EXCEPT !.id = i]] :
        l \in UNION { [1..n -> fields] : n \in 0..MaxRows } }

\* The books of GET /books.
BookLists ==
    Lists([id : {0}, title : {"a", "b"}, author : {"x"}, availableCopies : 0..MaxCopies])

\* The users of GET /users.
UserLists ==
    Lists([id : {0}, name : {"n", "m"}, userType : {"student"}])

\* A borrow form that offers every fetched book.
available_books_any(df_books) == df_books

\* df_books[df_books['availableCopies'] > 0]
available_books(df_books) ==
    SelectSeq(df_books, LAMBDA b : b.availableCopies > 0)

\* title + " by " + author, row by row.
book_options(df) == [i \in 1..Len(df) |-> <<df[i].title, " by ", df[i].author>>]

\* name + " (" + userType + ")", row by row.
user_options(df) == [i \in 1..Len(df) |-> <<df[i].name, " (", df[i].userType, ")">>]

\* df[options == selected].iloc[0] (as .index[0] in the update tab): the
\* first row whose label is the selected one.
first_match(df, options, selected_option) ==
    df[CHOOSE i \in 1..Len(df) :
         /\ options[i] = selected_option
         /\ \A j \in 1..(i - 1) : options[j] # selected_option]

\* What a selector over `offered`, labelled `options`, comes to when the user
\* picks its option number `pick`: st.selectbox returns the label, and the
\* row is looked up by the label.
Selector(fn, rows, offered, options, pick) ==
    [fn |-> fn, rows |-> rows, offered |-> offered, options |-> options, pick |-> pick,
     selected |-> options[pick], id |-> first_match(offered, options, options[pick]).id]

\* A selector over nothing is not shown.
NoSelector(fn, rows) ==
    [fn |-> fn, rows |-> rows, offered |-> <<>>, options |-> <<>>, pick |-> 0,
     selected |-> <<>>, id |-> 0]

\* "Select Book*" of the borrow form.
borrow_book_selector ==
    /\ view.fn = ""
    /\ \E df_books \in BookLists :
         LET offered == available_books(df_books) IN
         IF offered = <<>>
         THEN view' = NoSelector("borrow_book", df_books)
         ELSE \E pick \in 1..Len(offered) :
                view' = Selector("borrow_book", df_books, offered, book_options(offered), pick)
    /\ UNCHANGED <<selected, trigger, pc, books, payload, form, last, callLog, sent, ui, crash>>

\* "Select User*" of the borrow form.
borrow_user_selector ==
    /\ view.fn = ""
    /\ \E df_users \in UserLists :
         IF df_users = <<>>
         THEN view' = NoSelector("borrow_user", df_users)
         ELSE \E pick \in 1..Len(df_users) :
                view' = Selector("borrow_user", df_users, df_users, user_options(df_users), pick)
    /\ UNCHANGED <<selected, trigger, pc, books, payload, form, last, callLog, sent, ui, crash>>

\* "Select Book to Edit" of the update/delete tab.
edit_book_selector ==
    /\ view.fn = ""
    /\ \E df_books \in BookLists :
         IF df_books = <<>>
         THEN view' = NoSelector("edit_book", df_books)
         ELSE \E pick \in 1..Len(df_books) :
                view' = Selector("edit_book", df_books, df_books, book_options(df_books), pick)
    /\ UNCHANGED <<selected, trigger, pc, books, payload, form, last, callLog, sent, ui, crash>>

\* The open loans of GET /transactions: each references its book and its
\* user by the populated object (isdict, text its title or name) or by a
\* plain string (text the id).
Nested(texts) == [isdict : {TRUE}, text : texts] \cup [isdict : {FALSE}, text : {<<"i", "d">>}]

\* The transaction ids of the service.
LoanIds == { <<"T", "1">>, <<"T", " ", "-">>, <<"T", " ", "-", " ", "1">> }

TransactionLists ==
    Lists([id : {0}, transactionId : LoanIds, bookId : Nested(Titles),
           userId : Nested({<<"n">>}), dueDate : {<<"d">>}])

\* sep occurs in s.
RECURSIVE Contains(_, _)
Contains(s, sep) ==
    IF Len(s) < Len(sep) THEN FALSE
    ELSE IsPrefix(sep, s) \/ Contains(Tail(s), sep)

Unknown == <<"U", "n", "k", "n", "o", "w", "n">>

\* A nested value projected with no check of what it is: indexing a plain
\* string by a key raises.
nested_field_unchecked(x) ==
    IF x.isdict THEN [error |-> "none", text |-> x.text]
    ELSE [error |-> "TypeError", text |-> <<>>]

\* row['bookId']['title'] if isinstance(row['bookId'], dict) else 'Unknown'
\* (and the same of userId, name).
nested_field(x) ==
    IF x.isdict THEN [error |-> "none", text |-> x.text]
    ELSE [error |-> "none", text |-> Unknown]

\* The exception of the first row that raises one, the loop ending there.
FirstError(cells) ==
    LET bad == { i \in DOMAIN cells : cells[i].Book.error # "none" \/ cells[i].User.error # "none" }
        i == CHOOSE k \in bad : \A j \in bad : k <= j
    IN IF bad = {} THEN "none"
       ELSE IF cells[i].Book.error # "none" THEN cells[i].Book.error ELSE cells[i].User.error

\* for _, row in df.iterrows(): the book title and user name of every row.
display_data(df) ==
    LET cells == [i \in DOMAIN df |->
                     [Book |-> nested_field(df[i].bookId), User |-> nested_field(df[i].userId)]]
    IN [error |-> FirstError(cells),
        out |-> [i \in DOMAIN df |-> [Book |-> cells[i].Book.text, User |-> cells[i].User.text]]]

NA == <<"N", "/", "A">>

\* A column display_df does not have.
NoColumn == <<>>

\* df_transactions[column].apply(lambda x: x.get(key, 'N/A')), done when
\* the first row's value is a dict: .get on a plain string raises.
apply_get(df, column) ==
    IF df[1][column].isdict
    THEN [i \in DOMAIN df |->
            IF df[i][column].isdict THEN [error |-> "none", text |-> df[i][column].text]
            ELSE [error |-> "AttributeError", text |-> <<>>]]
    ELSE [i \in DOMAIN df |-> [error |-> "none", text |-> NoColumn]]

\* display_df of the Dashboard's Recent Activity.
display_df(df) ==
    LET cells == [i \in DOMAIN df |->
                     [Book |-> apply_get(df, "bookId")[i], User |-> apply_get(df, "userId")[i]]]
    IN [error |-> FirstError(cells),
        out |-> [i \in DOMAIN df |-> [Book |-> cells[i].Book.text, User |-> cells[i].User.text]]]

\* The Dashboard's Recent Activity table.
recent_activity ==
    /\ view.fn = ""
    /\ \E df_transactions \in TransactionLists \ {<<>>} :
         LET shown == display_df(df_transactions) IN
         view' = [fn |-> "recent_activity", rows |-> df_transactions, error |-> shown.error,
                  out |-> IF shown.error = "none" THEN shown.out ELSE <<>>]
    /\ UNCHANGED <<selected, trigger, pc, books, payload, form, last, callLog, sent, ui, crash>>

\* transaction_options, one label per open loan.
transaction_options(df, shown) ==
    [i \in DOMAIN df |->
        transaction_option(df[i].transactionId, shown[i].Book, shown[i].User, df[i].dueDate)]

\* "Select Transaction to Return*" of the return form, and the id parsed
\* back out of the picked label.
return_selector ==
    /\ view.fn = ""
    /\ \E df_transactions \in TransactionLists :
         LET shown == display_data(df_transactions)
             options == transaction_options(df_transactions, shown.out)
         IN IF df_transactions = <<>>
            THEN view' = [fn |-> "return", rows |-> df_transactions, error |-> "none",
                          out |-> <<>>, options |-> <<>>, pick |-> 0, id |-> <<>>]
            ELSE IF shown.error # "none"
            THEN view' = [fn |-> "return", rows |-> df_transactions, error |-> shown.error,
                          out |-> <<>>, options |-> <<>>, pick |-> 0, id |-> <<>>]
            ELSE \E pick \in 1..Len(options) :
                   view' = [fn |-> "return", rows |-> df_transactions, error |-> "none",
                            out |-> shown.out, options |-> options, pick |-> pick,
                            id |-> SplitFirst(options[pick], Sep)]
    /\ UNCHANGED <<selected, trigger, pc, books, payload, form, last, callLog, sent, ui, crash>>

\* The tables of "All Transactions" and "Overdue Books".
transactions_table ==
    /\ view.fn = ""
    /\ \E df \in TransactionLists, tab \in {"all_transactions", "overdue"} :
         LET shown == display_data(df) IN
         view' = [fn |-> tab, rows |-> df, error |-> shown.error,
                  out |-> IF shown.error = "none" THEN shown.out ELSE <<>>]
    /\ UNCHANGED <<selected, trigger, pc, books, payload, form, last, callLog, sent, ui, crash>>

\* The columns of df_most_borrowed, in order: the name and whether the
\* dtype is a number.  The names of one table are distinct.
ColumnLists ==
    { c \in UNION { [1..n -> [name : {"title", "borrowCount", "count", "total", "rank"},
                              number : BOOLEAN]] : n \in 1..MaxColumns } :
        /\ \A i, j \in DOMAIN c : c[i].name = c[j].name => i = j
        /\ \A i \in DOMAIN c : c[i].name = "title" => ~c[i].number }

\* A fallback that looks at no dtype and takes the second column.
y_column_second(columns) ==
    IF \E i \in DOMAIN columns : columns[i].name = "borrowCount"
    THEN [error |-> "none", name |-> "borrowCount"]
    ELSE IF \E i \in DOMAIN columns : columns[i].name = "count"
    THEN [error |-> "none", name |-> "count"]
    ELSE IF Len(columns) > 1 THEN [error |-> "none", name |-> columns[2].name]
    ELSE [error |-> "IndexError", name |-> ""]

\* y_column of the Most Borrowed chart.
y_column(columns) ==
    IF \E i \in DOMAIN columns : columns[i].name = "borrowCount"
    THEN [error |-> "none", name |-> "borrowCount"]
    ELSE IF \E i \in DOMAIN columns : columns[i].name = "count"
    THEN [error |-> "none", name |-> "count"]
    ELSE LET numeric_columns == SelectSeq(columns, LAMBDA c : c.number)
         IN IF Len(numeric_columns) > 0
            THEN [error |-> "none", name |-> numeric_columns[1].name]
            ELSE IF Len(columns) > 1 THEN [error |-> "none", name |-> columns[2].name]
            ELSE [error |-> "IndexError", name |-> ""]

\* "Most Borrowed Books": the column plotted.
most_borrowed ==
    /\ view.fn = ""
    /\ \E columns \in ColumnLists :
         LET y == y_column(columns) IN
         view' = [fn |-> "most_borrowed", columns |-> columns, error |-> y.error,
                  y_column |-> y.name]
    /\ UNCHANGED <<selected, trigger, pc, books, payload, form, last, callLog, sent, ui, crash>>

\* The next interaction re-runs the script: what was built is discarded and
\* the lists are fetched anew.
discard_view ==
    /\ view.fn # ""
    /\ view' = [fn |-> ""]
    /\ UNCHANGED <<selected, trigger, pc, books, payload, form, last, callLog, sent, ui, crash>>

NextData ==
    \/ borrow_book_selector
    \/ borrow_user_selector
    \/ edit_book_selector
    \/ return_selector
    \/ transactions_table
    \/ recent_activity
    \/ most_borrowed
    \/ discard_view

\* The renderers' data shaping alone, over every list within the bounds.
SpecData == Init /\ [][NextData]_vars

(***************************************************************************)
(* Properties                                                              *)
(***************************************************************************)
Range(f) == { f[i] : i \in DOMAIN f }

\* A call was made in this pass; `last` describes it.
Called == last.site # ""

\* The latest call's request did not come to a usable answer: requests
\* raised, the status is not 200, or the text of the answer is not JSON.
Failed ==
    \/ last.outcome.kind = "exception"
    \/ last.outcome.status # 200
    \/ ~last.outcome.json

\* C1: a call whose response status is not 2xx returns None and lets no
\* exception out, whatever the error body is.
C1_NonSuccessReturnsNone ==
    (Called /\ last.outcome.kind = "response" /\ last.outcome.status \notin 200..299)
        => (last.did.ret.absent /\ last.did.raised = "none" /\ crash = "none")

\* C1's case: a 500 whose body is not JSON came back as None.
C1_Witness ==
    /\ Called
    /\ last.outcome.kind = "response"
    /\ last.outcome.status = 500
    /\ ~last.outcome.json
    /\ last.did.ret.absent

\* C2: a request that times out, while connecting or while reading, returns
\* None and shows the timeout message, not the connection-failure one.
C2_TimeoutMessage ==
    (Called /\ last.outcome.kind = "exception"
            /\ last.outcome.exc \in {"ConnectTimeout", "ReadTimeout"})
        => (last.did.ret.absent /\ last.did.banner = "timeout")

\* C3 as stated: every failure path writes a diagnostic besides its banner.
C3_EveryFailureLogs ==
    (Called /\ Failed) => (last.did.banner # "none" /\ last.did.printed)

\* C3 as amended: every failure path shows its banner; the non-success
\* status path and the any-other-exception path also print a diagnostic, the
\* connection-failure and timeout paths print none.
C3_DiagnosticOnStatusAndOther ==
    (Called /\ Failed)
        => /\ last.did.banner # "none"
           /\ last.did.printed
                <=> ~(/\ last.outcome.kind = "exception"
                      /\ \/ IsInstance(last.outcome.exc, "ConnectionError")
                         \/ IsInstance(last.outcome.exc, "Timeout"))

\* C3's case: a 500 with an error body was shown and printed.
C3_Witness ==
    /\ Called
    /\ last.outcome.kind = "response"
    /\ last.outcome.status = 500
    /\ last.outcome.json
    /\ last.did.banner = "api_error"
    /\ last.did.printed

\* C4: a 200 whose body says success = false is a failure of the call: an
\* error banner and None.
C4_SuccessFlagChecked ==
    (Called /\ last.outcome.kind = "response" /\ last.outcome.status = 200
            /\ last.outcome.json /\ last.outcome.body = Unsuccessful)
        => (last.did.ret.absent /\ last.did.banner # "none")

\* C5: a call puts at most one request on the wire, whatever it comes to.
C5_OneRequestPerCall ==
    /\ Len(sent) <= Len(callLog)
    /\ Called => Len(last.did.requests) <= 1

\* C5's case: the second call of a pass has timed out, two requests sent.
C5_Witness ==
    /\ Len(callLog) = 2
    /\ Len(sent) = 2
    /\ last.outcome.kind = "exception"
    /\ last.outcome.exc = "ReadTimeout"

\* The elements that show a call site's result was read.
Processed(site) ==
    CASE site = "sidebar_check"  -> { Ev("connected", "sidebar") }
      [] site = "sidebar_health" -> { Ev("db_connected", "sidebar"),
                                      Ev("db_disconnected", "sidebar") }
      [] site = "health_button"  -> { Ev("health_status", "sidebar") }
      [] OTHER -> { Ev("render", site), Ev("no_results", site), Ev("all_returned", site),
                    Ev("no_overdue", site), Ev("warning", site) }

\* The first call site of each page renderer.
FirstSite(sel) ==
    CASE sel = "Dashboard"    -> "main_page_check"
      [] sel = "Books"        -> "books_tab1"
      [] sel = "Users"        -> "users_tab1"
      [] sel = "Transactions" -> "tx_books"
      [] OTHER                -> "analytics_tab1"

\* Where the script is to go on when the branch of a call site is skipped:
\* the next tab or form of the page (the Dashboard's sections are nested in
\* one another, so nothing of it remains).
Remaining(site) ==
    CASE site \in {"sidebar_check", "sidebar_health"} ->
             IF trigger = "refresh" THEN {"done"}
             ELSE IF trigger = "health" THEN {"health_button"}
             ELSE {FirstSite(selected)}
      [] site = "health_button"    -> {FirstSite(selected)}
      [] site = "books_tab1"       -> {"books_add", "books_categories"}
      [] site = "books_add"        -> {"books_categories"}
      [] site = "books_categories" -> {"books_search", "books_tab4"}
      [] site = "books_search"     -> {"books_tab4"}
      [] site = "users_tab1"       -> {"users_add", "done"}
      [] site = "tx_books"         -> {"tx_users"}
      [] site = "tx_users"         -> {"tx_tab2"}
      [] site = "tx_borrow"        -> {"tx_tab2"}
      [] site = "tx_tab2"          -> {"tx_tab3"}
      [] site = "tx_return"        -> {"tx_tab3"}
      [] site = "tx_tab3"          -> {"tx_tab4"}
      [] site = "analytics_tab1"   -> {"analytics_tab2"}
      [] site = "analytics_tab2"   -> {"analytics_tab3"}
      [] site = "analytics_tab3"   -> {"analytics_tab4"}
      [] OTHER                     -> {"done"}

\* C6: at every call site a None result skips the branch: nothing of the
\* result is shown, no exception is raised, and the script goes on to what
\* remains of the pass.
C6_AbsentSkipsBranch ==
    /\ (Called /\ last.did.ret.absent)
         => /\ crash = "none"
            /\ Processed(last.site) \cap Range(ui) = {}
            /\ pc \in Remaining(last.site)
    /\ (last.site = "tx_users" /\ books.absent)
         => /\ crash = "none"
            /\ Processed("tx_users") \cap Range(ui) = {}
            /\ pc = "tx_tab2"

\* C6's case: every fetch of the Transactions page but the last succeeded,
\* the last returned None, and the pass ended without an exception.
C6_Witness ==
    /\ last.site = "tx_tab4"
    /\ last.did.ret.absent
    /\ Ev("render", "tx_tab3") \in Range(ui)
    /\ pc = "done"
    /\ crash = "none"

\* The requests main_page sends once the gate is passed.
DashboardFetches == {"/analytics/dashboard", "/transactions?page=1&limit=10"}

\* C7: with the health probe of the Dashboard not 'OK', the page shows the
\* connectivity error alone and returns; no dashboard fetch is sent in that
\* pass.
C7_DashboardGate ==
    /\ (last.site = "main_page_check" /\ ~(~last.did.ret.absent
                                          /\ last.did.ret.body.status = "OK"))
         => /\ pc = "done"
            /\ Len(ui) >= 2
            /\ ui[Len(ui)] = Ev("connectivity_error", "main_page")
            /\ ui[Len(ui) - 1] = Ev("page", "main_page")
    /\ Ev("connectivity_error", "main_page") \in Range(ui)
         => /\ \A i \in DOMAIN sent : sent[i].endpoint \notin DashboardFetches
            /\ \A i \in DOMAIN callLog :
                 callLog[i] \notin {"main_page_stats", "main_page_recent"}

\* C7's case: the probe answered 200 with a status other than 'OK'.
C7_Witness ==
    /\ last.site = "main_page_check"
    /\ ~last.did.ret.absent
    /\ last.did.ret.body.status = "DOWN"
    /\ pc = "done"

\* The POST /books requests of this pass.
AddBookPosts ==
    SelectSeq(sent, LAMBDA r : r.method = "POST" /\ r.endpoint = "/books")

\* The add-book form was submitted with title, author and category filled.
AddBookSubmitted ==
    /\ trigger = "add_book"
    /\ form # NoData
    /\ form.title # "" /\ form.author # "" /\ form.category # ""

\* C8: a submitted add-book form with its required fields filled gives
\* exactly one POST /books in the pass, with availableCopies = totalCopies =
\* the submitted total.
C8_AddBookOnePost ==
    /\ Len(AddBookPosts) <= 1
    /\ (AddBookSubmitted /\ pc = "done")
         => /\ Len(AddBookPosts) = 1
            /\ AddBookPosts[1].data.totalCopies = form.total_copies
            /\ AddBookPosts[1].data.availableCopies = form.total_copies

\* C8's case: the form was submitted with two copies and the pass is over.
C8_Witness ==
    /\ AddBookSubmitted
    /\ form.total_copies = 2
    /\ pc = "done"
    /\ Len(AddBookPosts) = 1

\* A required value of the submitted form is empty.
RequiredEmpty ==
    /\ form # NoData
    /\ \/ trigger = "add_book"
            /\ (form.title = "" \/ form.author = "" \/ form.category = "")
       \/ trigger = "add_user"
            /\ (form.name = "" \/ form.email = "" \/ form.user_type = "")
       \/ trigger = "borrow"
            /\ (form.selected_book = "" \/ form.selected_user = "")
       \/ trigger = "return" /\ form.transaction_id = <<>>

FormOf(trig) ==
    CASE trig = "add_book"    -> "add_book_form"
      [] trig = "update_book" -> "update_book_form"
      [] trig = "delete_book" -> "delete_book"
      [] trig = "add_user"    -> "add_user_form"
      [] trig = "borrow"      -> "borrow_book_form"
      [] trig = "return"      -> "return_book_form"
      [] OTHER                -> ""

\* C9: a form submitted with a required value empty shows the validation
\* error and sends no write.
C9_ValidationBlocksWrite ==
    RequiredEmpty
        => /\ Ev("validation_error", FormOf(trigger)) \in Range(ui)
           /\ \A i \in DOMAIN sent : sent[i].method = "GET"

\* C9's case: the add-book form was submitted with its category empty and
\* the pass is over.
C9_Witness ==
    /\ trigger = "add_book"
    /\ form # NoData
    /\ form.title # "" /\ form.author # "" /\ form.category = ""
    /\ pc = "done"

\* The call sites of the writes, and the form of each.
WriteSites ==
    {"books_add", "books_update", "books_delete", "users_add", "tx_borrow", "tx_return"}

\* The post-write elements of the submitted form, in the order shown.
PostWrite ==
    SelectSeq(ui, LAMBDA e : e.at = FormOf(trigger)
                             /\ e.ev \in {"success_banner", "sleep", "rerun"})

C11_SelectorIsAvailableBooks ==
    view.fn = "borrow_book"
        => /\ \A i \in DOMAIN view.rows :
                view.rows[i].availableCopies > 0
                    <=> \E j \in DOMAIN view.offered : view.offered[j].id = view.rows[i].id
           /\ Len(view.offered)
                = Cardinality({ i \in DOMAIN view.rows : view.rows[i].availableCopies > 0 })
           /\ Len(view.options) = Len(view.offered)
           /\ \A j \in DOMAIN view.options :
                view.options[j] = <<view.offered[j].title, " by ", view.offered[j].author>>

\* C11's case: of two fetched books the first has no copy left, and the
\* selector offers the second alone.
C11_Witness ==
    /\ view.fn = "borrow_book"
    /\ Len(view.rows) = 2
    /\ view.rows[1].availableCopies = 0
    /\ view.rows[2].availableCopies > 0
    /\ Len(view.options) = 1
    /\ view.offered[1].id = 2

\* C19: the id a selector gives to the api is the id of the record picked,
\* also when two records carry the same label.
C19_PickedRecordIsSent ==
    (view.fn \in {"borrow_book", "borrow_user", "edit_book"} /\ view.pick > 0)
        => view.id = view.offered[view.pick].id

\* C12: the id parsed out of the picked return label is the transactionId
\* the label was built from, whenever that id does not contain " - ".
C12_LabelRoundTrip ==
    (view.fn = "return" /\ view.pick > 0 /\ ~Contains(view.rows[view.pick].transactionId, Sep))
        => view.id = view.rows[view.pick].transactionId

\* C14: on the Transactions page a row whose bookId (userId) is a plain
\* string shows 'Unknown' as its book title (user name), and no list makes
\* the return selector or either table raise.
C14_StringRowsShowUnknown ==
    view.fn \in {"return", "all_transactions", "overdue"}
        => /\ view.error = "none"
           /\ Len(view.out) = Len(view.rows)
           /\ \A i \in DOMAIN view.rows :
                /\ ~view.rows[i].bookId.isdict => view.out[i].Book = Unknown
                /\ ~view.rows[i].userId.isdict => view.out[i].User = Unknown
                /\ view.rows[i].bookId.isdict => view.out[i].Book = view.rows[i].bookId.text
                /\ view.rows[i].userId.isdict => view.out[i].User = view.rows[i].userId.text
           /\ view.fn = "return"
                => \A i \in DOMAIN view.options :
                     /\ IsPrefix(view.rows[i].transactionId \o Sep \o view.out[i].Book,
                                 view.options[i])
                     /\ Contains(view.options[i],
                                 <<"U", "s", "e", "r", ":", " ">> \o view.out[i].User \o <<",">>)

\* C14's case: a list whose first row references its book by an object and
\* whose second row references book and user by plain strings.
C14_Witness ==
    /\ view.fn \in {"return", "all_transactions", "overdue"}
    /\ Len(view.rows) = 2
    /\ view.rows[1].bookId.isdict
    /\ ~view.rows[2].bookId.isdict
    /\ ~view.rows[2].userId.isdict
    /\ view.out[2] = [Book |-> Unknown, User |-> Unknown]

\* C15: the Dashboard's Recent Activity table checks every row's bookId and
\* userId before projecting, shows a placeholder for a row whose value is
\* not an object, and raises for no list.
C15_RecentActivityPerRow ==
    view.fn = "recent_activity"
        => /\ view.error = "none"
           /\ Len(view.out) = Len(view.rows)
           /\ \A i \in DOMAIN view.rows :
                /\ ~view.rows[i].bookId.isdict => view.out[i].Book \in {Unknown, NA}
                /\ ~view.rows[i].userId.isdict => view.out[i].User \in {Unknown, NA}

\* The positions of the columns named `name`, and of the number columns.
ColumnsNamed(name) == { i \in DOMAIN view.columns : view.columns[i].name = name }
NumberColumns == { i \in DOMAIN view.columns : view.columns[i].number }

\* C13: the Most Borrowed chart plots 'borrowCount' when the table has it,
\* else 'count' when the table has it, else the first number column; a
\* table with neither and exactly one number column plots that column.
C13_ColumnFallback ==
    view.fn = "most_borrowed"
        => /\ ColumnsNamed("borrowCount") # {}
                => (view.y_column = "borrowCount" /\ view.error = "none")
           /\ (ColumnsNamed("borrowCount") = {} /\ ColumnsNamed("count") # {})
                => (view.y_column = "count" /\ view.error = "none")
           /\ (ColumnsNamed("borrowCount") = {} /\ ColumnsNamed("count") = {})
                => /\ \A i \in NumberColumns :
                        (\A j \in NumberColumns : i <= j)
                            => (view.y_column = view.columns[i].name /\ view.error = "none")
                   /\ \A i \in NumberColumns :
                        NumberColumns = {i} => view.y_column = view.columns[i].name

\* C13's case: a table with neither count field whose one number column
\* comes third, and is the one plotted.
C13_Witness ==
    /\ view.fn = "most_borrowed"
    /\ ColumnsNamed("borrowCount") = {}
    /\ ColumnsNamed("count") = {}
    /\ NumberColumns = {3}
    /\ view.y_column = view.columns[3].name

\* C16: a dashboard-stats response with success = true in which a field of
\* the data is missing is rendered without an error being raised.
C16_MissingFieldsTolerated ==
    (/\ last.site = "main_page_stats"
     /\ Succeeded(last.did.ret)
     /\ last.did.ret.body.data = "missing")
        => crash = "none"

\* The answer to a health probe is a 200 JSON body whose status is 'OK'.
ProbeOK(o) == o.kind = "response" /\ o.status = 200 /\ o.json /\ o.body.status = "OK"

\* What the sidebar shows of the database.
DatabaseLines == { Ev("db_connected", "sidebar"), Ev("db_disconnected", "sidebar") }

\* C17: the sidebar shows 'Backend Connected' exactly when its probe answers
\* status 'OK' and 'Backend Disconnected' otherwise; a database line is
\* shown only when connected, in one style when the answer of the probe
\* made for it has database.connected true and in the other when false.
C17_SidebarStatus ==
    /\ last.site = "sidebar_check"
         => /\ Ev("connected", "sidebar") \in Range(ui) <=> ProbeOK(last.outcome)
            /\ Ev("disconnected", "sidebar") \in Range(ui) <=> ~ProbeOK(last.outcome)
            /\ DatabaseLines \cap Range(ui) = {}
    /\ last.site = "sidebar_health"
         => /\ Ev("connected", "sidebar") \in Range(ui)
            /\ Ev("db_connected", "sidebar") \in Range(ui)
                 <=> (~last.did.ret.absent /\ last.outcome.body.dbConnected)
            /\ Ev("db_disconnected", "sidebar") \in Range(ui)
                 <=> (~last.did.ret.absent /\ ~last.outcome.body.dbConnected)
    /\ Called
         => /\ Cardinality({ i \in DOMAIN ui :
                  ui[i] \in {Ev("connected", "sidebar"), Ev("disconnected", "sidebar")} }) = 1
            /\ Cardinality({ i \in DOMAIN ui : ui[i] \in DatabaseLines }) <= 1
    /\ DatabaseLines \cap Range(ui) # {}
         => /\ Ev("connected", "sidebar") \in Range(ui)
            /\ callLog[1] = "sidebar_check"
            /\ callLog[2] = "sidebar_health"

\* C17's case: the backend answers 'OK' and its database is not connected.
C17_Witness ==
    /\ last.site = "sidebar_health"
    /\ ProbeOK(last.outcome)
    /\ ~last.outcome.body.dbConnected
    /\ Ev("connected", "sidebar") \in Range(ui)
    /\ Ev("db_disconnected", "sidebar") \in Range(ui)

\* The renderers invoked in this pass so far, by position in ui.
Invoked == { i \in DOMAIN ui : ui[i].ev = "page" }

\* The renderer each navigation label is mapped to.
RendererOf(sel) ==
    CASE sel = "Dashboard"    -> "main_page"
      [] sel = "Books"        -> "books_management"
      [] sel = "Users"        -> "users_management"
      [] sel = "Transactions" -> "transactions_management"
      [] sel = "Analytics"    -> "analytics_dashboard"

\* C18 as stated: every pass invokes exactly one renderer, the one the
\* selection is mapped to.
C18_ExactlyOneRenderer ==
    pc = "done"
        => /\ Cardinality(Invoked) = 1
           /\ \A i \in Invoked : ui[i].at = RendererOf(selected)

\* C18, amended: no pass invokes two renderers or a renderer other than the
\* one the selection is mapped to, and a pass invokes that renderer unless
\* the Refresh button's st.rerun() ends it before the router is reached.
C18_OneRendererUnlessRefresh ==
    /\ Cardinality(Invoked) <= 1
    /\ \A i \in Invoked : ui[i].at = RendererOf(selected)
    /\ pc = "done" => (Invoked = {} <=> trigger = "refresh")
    /\ (pc = "done" /\ trigger = "refresh")
         => /\ ui[Len(ui)] = Ev("rerun", "refresh")
            /\ Interactions = { <<selected, "none">> }

\* C18's case: a pass with Transactions selected has run to its end.
C18_Witness ==
    /\ pc = "done"
    /\ selected = "Transactions"
    /\ trigger = "return"
    /\ Cardinality(Invoked) = 1
    /\ \E i \in Invoked : ui[i].at = "transactions_management"
    /\ "tx_tab4" \in Range(callLog)

\* The Dashboard page's blocking 'Backend server is not connected' error.
Blocking == Ev("connectivity_error", "main_page")

\* C20 as stated: in a pass with Dashboard selected the sidebar shows
\* 'Backend Connected' exactly when the page does not show the blocking
\* error.
C20_SidebarAndPageAgree ==
    (selected = "Dashboard" /\ "main_page_check" \in Range(callLog))
        => (Ev("connected", "sidebar") \in Range(ui) <=> Blocking \notin Range(ui))

\* C20, amended: the page shows the blocking error exactly when its own
\* probe does not answer 'OK', whatever the sidebar shows of its earlier
\* probe; the two agree exactly when the page's probe answers as the
\* sidebar's did.
C20_EachShowsItsOwnProbe ==
    /\ last.site = "main_page_check"
         => /\ Blocking \in Range(ui) <=> ~ProbeOK(last.outcome)
            /\ (Ev("connected", "sidebar") \in Range(ui) <=> Blocking \notin Range(ui))
                 <=> (ProbeOK(last.outcome) <=> Ev("connected", "sidebar") \in Range(ui))
    /\ "main_page_check" \in Range(callLog)
         => /\ callLog[1] = "sidebar_check"
            /\ \E i \in DOMAIN callLog : i > 1 /\ callLog[i] = "main_page_check"
            /\ Cardinality({ i \in DOMAIN sent : sent[i].endpoint = "/health" }) >= 2

\* C20's case: the backend answered the sidebar's probe 'OK' and fails the
\* page's probe made later in the same pass.
C20_Witness ==
    /\ selected = "Dashboard"
    /\ last.site = "main_page_check"
    /\ ~ProbeOK(last.outcome)
    /\ Ev("connected", "sidebar") \in Range(ui)
    /\ Blocking \in Range(ui)

\* The DELETE requests of this pass.
Deletes == SelectSeq(sent, LAMBDA r : r.method = "DELETE")

\* The update/delete tab drew the selected book and its buttons in this pass.
DeleteDrawn == Ev("render", "books_tab4") \in Range(ui)

\* C21 as stated: a pass in which 'Delete Book' was pressed issues one
\* DELETE /books/{id}, and a pass in which it was not pressed issues none.
C21_PressDeletes ==
    /\ (trigger = "delete_book" /\ pc = "done") => Len(Deletes) = 1
    /\ Deletes # <<>> => trigger = "delete_book"

\* C21, amended: a pass in which 'Delete Book' was pressed and in which the
\* tab's own fetch of the books drew the button again issues exactly one
\* DELETE /books/{id}, for the row found by the selected label, right after
\* the warning and with no further interaction; a pass that does not draw
\* the button, or in which it was not pressed, issues none.
C21_PressDeletesWhenDrawn ==
    /\ Len(Deletes) <= 1
    /\ \A i \in DOMAIN Deletes :
         /\ trigger = "delete_book"
         /\ Deletes[i].endpoint = "/books/{id}"
         /\ Deletes[i].data = [id |-> "book_data._id"]
         /\ Ev("warning", "delete_book") \in Range(ui)
    /\ (trigger = "delete_book" /\ pc = "done") => (Len(Deletes) = 1 <=> DeleteDrawn)
    /\ Ev("warning", "delete_book") \in Range(ui)
         => (pc = "books_delete" \/ Len(Deletes) = 1)
    /\ \A i \in DOMAIN callLog :
         callLog[i] = "books_delete" => (i > 1 /\ callLog[i - 1] = "books_tab4")

\* C21's case: 'Delete Book' was pressed, the warning was shown, and the
\* pass ended having sent the DELETE.
C21_Witness ==
    /\ trigger = "delete_book"
    /\ pc = "done"
    /\ last.site = "books_delete"
    /\ Ev("warning", "delete_book") \in Range(ui)
    /\ Len(Deletes) = 1

====
